---- MODULE Spec2Model ----
(***************************************************************************)
(* A model of the install pipeline of bindown's Downloader                 *)
(* (src/downloader.go): Install and the stages it calls, over an abstract  *)
(* file system and an abstract HTTP server.  Every Install call is a       *)
(* process that advances one system call at a time, so that calls sharing  *)
(* a cache directory can interleave.  The command line's handling of the   *)
(* config file (src/cmd/bindown/cli.go, src/internal/cli/cli.go) is         *)
(* modelled beside it: one invocation over the files of the working         *)
(* directory.                                                               *)
(***************************************************************************)
EXTENDS Integers, Sequences, FiniteSets, TLC

\* Number of processes that may call Install.
NumProcs == 2

Procs == 1..NumProcs

(***************************************************************************)
(* File contents, checksums, URLs                                          *)
(***************************************************************************)
\* Contents are opaque byte strings: the fixture archive, a raw binary, the
\* file packed in the archive, a file some earlier tool left behind, and the
\* truncated file os.Create leaves until io.Copy has finished.
FooTarGz == "FOO_TAR_GZ"
FooBin == "FOO_BIN"
FooTxt == "FOO_TXT"
OldBin == "OLD_BIN"
Partial == "PARTIAL"

\* fileChecksum: the hex SHA-256 of a file's bytes (one value per content).
sha256(c) ==
  CASE c = FooTarGz -> "f7fa712c"
    [] c = FooBin -> "0b1e55ed"
    [] c = FooTxt -> "5ca1ab1e"
    [] c = OldBin -> "0ddba11c"
    [] OTHER -> "e3b0c442"

\* The values a Descriptor's Checksum takes: the two right ones, a wrong one
\* and the empty (absent) one.
Checksums == {"f7fa712c", "0b1e55ed", "deadbeef", ""}

ArchiveURL == "http://h/foo/foo.tar.gz?foo=bar"
RawURL == "http://h/foo/foo"
NotFoundURL == "http://h/wrongpath"
BadHostURL == "https://bad/url"
InvalidURL == "%zz"

URLs == {ArchiveURL, RawURL, NotFoundURL, BadHostURL, InvalidURL}

\* url.Parse fails on a malformed escape.
urlParseOK(u) == u # InvalidURL

\* path.Base(u.Path)
pathBase(u) ==
  CASE u = ArchiveURL -> "foo.tar.gz"
    [] u = RawURL -> "foo"
    [] u = NotFoundURL -> "wrongpath"
    [] OTHER -> "url"

\* The first status code downloadFile treats as a failure.
StatusLimit == 300

\* The server: what http.Get answers with when the network does not fail.
httpGet(u) ==
  CASE u = ArchiveURL -> [err |-> FALSE, status |-> 200, body |-> FooTarGz]
    [] u = RawURL -> [err |-> FALSE, status |-> 200, body |-> FooBin]
    [] u = NotFoundURL -> [err |-> FALSE, status |-> 404, body |-> ""]
    [] OTHER -> [err |-> TRUE, status |-> 0, body |-> ""]

\* archiver.ByExtension: whether the file name has a recognized archive format.
ByExtension(name) == name = "foo.tar.gz"

\* What unarchiving a file's bytes writes: the archive's entries as
\* <<relative path, content>>, or nothing when the bytes are no archive.
archiveEntries(c) == IF c = FooTarGz THEN {<<"bin/foo.txt", FooTxt>>} ELSE {}

isArchive(c) == c = FooTarGz

(***************************************************************************)
(* Descriptors and options                                                 *)
(***************************************************************************)
\* In-archive source paths: unset, the packed file, a path that is not there.
Sources == {"", "bin/foo.txt", "bin/nope"}

\* The checksums configured for a URL: for the fixture archive its own, a
\* wrong one and none; for every other URL the checksum of what it serves
\* (the archive's where nothing is served).
ChecksumsOf(u) ==
  CASE u = ArchiveURL -> {"f7fa712c", "deadbeef", ""}
    [] u = RawURL -> {"0b1e55ed"}
    [] OTHER -> {"f7fa712c"}

\* Downloader (OS and Arch play no part in Install and are left out).  The
\* fixture archive comes with every install strategy, a URL that serves no
\* archive with the move strategy or none.
Descriptors ==
  {x \in [URL : URLs, Checksum : Checksums, LinkSource : Sources,
          BinName : {"foo"}, MoveFrom : Sources] :
     /\ x.Checksum \in ChecksumsOf(x.URL)
     /\ x.LinkSource # "" /\ x.MoveFrom # "" =>
          x.LinkSource = "bin/foo.txt" /\ x.MoveFrom = "bin/foo.txt"
     /\ x.URL # ArchiveURL => x.LinkSource = "" /\ x.MoveFrom \in {"", "bin/foo.txt"}}

\* The Descriptors concurrent callers share: the fixture archive with its
\* right checksum, installed by move or by link.
SharedDescriptors ==
  {x \in Descriptors :
     /\ x.URL = ArchiveURL
     /\ x.Checksum = "f7fa712c"
     /\ \/ x.MoveFrom = "bin/foo.txt" /\ x.LinkSource = ""
        \/ x.MoveFrom = "" /\ x.LinkSource = "bin/foo.txt"}

TargetDir == <<"t">>

\* A directory option left empty.
Unset == <<>>

(***************************************************************************)
(* Paths and the file system                                               *)
(***************************************************************************)
\* filepath.Join of a directory and one element: an empty element is dropped.
Join(dir, name) == IF name = "" THEN dir ELSE Append(dir, name)

\* A faulty default that leaves the checksum out of the download directory.
UnkeyedDownloadDir(target, sum) ==
  Join(Join(target, ".bindownloader"), "downloads")

DefaultDownloadDir(target, sum) ==
  Join(Join(Join(target, ".bindownloader"), "downloads"), sum)

DefaultExtractDir(target, sum) ==
  Join(Join(Join(target, ".bindownloader"), "extracts"), sum)

NoFile == [kind |-> "none", content |-> "", mode |-> 0, target |-> <<>>]

File(c, m) == [kind |-> "file", content |-> c, mode |-> m, target |-> <<>>]

Symlink(t) == [kind |-> "link", content |-> "", mode |-> 0, target |-> t]

\* The mode chmod sets (0755) and the mode of a newly written file (0644).
ModeExec == 493

ModeNew == 420

Lookup(f, path) == IF path \in DOMAIN f THEN f[path] ELSE NoFile

\* os.Stat follows a symlink to the entry it names.
Stat(f, path) ==
  LET e == Lookup(f, path)
  IN IF e.kind = "link" THEN Lookup(f, e.target) ELSE e

\* The path a symlink at path resolves to (path itself when it is no link).
Resolved(f, path) ==
  IF Lookup(f, path).kind = "link" THEN Lookup(f, path).target ELSE path

fileExists(f, path) == Stat(f, path).kind # "none"

\* fileExistsWithChecksum: false without error for a missing file and for a
\* file with another checksum.
fileExistsWithChecksum(f, path, sum) ==
  /\ fileExists(f, path)
  /\ sha256(Stat(f, path).content) = sum

\* rm (os.RemoveAll): the entry at path is gone, whatever it was.
Removed(f, path) == [q \in DOMAIN f |-> IF q = path THEN NoFile ELSE f[q]]

Written(f, path, e) == [q \in DOMAIN f |-> IF q = path THEN e ELSE f[q]]

(***************************************************************************)
(* Downloader's path helpers                                               *)
(***************************************************************************)
downloadableName(dd) == pathBase(dd.URL)

downloadablePath(dd, dir) == Join(dir, downloadableName(dd))

binPath(dd, target) == Join(target, dd.BinName)

\* The paths an Install of some Descriptor reads or writes: the destination,
\* the downloaded file and, in the extract directory, the raw copy, the
\* archive's entry and the link and move sources.
PathsOf(dd) ==
  {binPath(dd, TargetDir),
   downloadablePath(dd, DefaultDownloadDir(TargetDir, dd.Checksum))}
    \cup {Join(DefaultExtractDir(TargetDir, dd.Checksum), n) :
            n \in {downloadableName(dd), "bin/foo.txt", dd.LinkSource, dd.MoveFrom}}

AllPaths == UNION {PathsOf(dd) : dd \in Descriptors}

(***************************************************************************)
(* The command line: config files and arguments                            *)
(***************************************************************************)
\* The names loadConfigFile and init try, in their order.
defaultConfigFilenames ==
  <<"bindown.yml", "bindown.yaml", "bindown.json",
    ".bindown.yml", ".bindown.yaml", ".bindown.json">>

\* A config file with a name of its own.
CustomName == "custom.yml"

ConfigNames == {defaultConfigFilenames[i] : i \in DOMAIN defaultConfigFilenames}
                 \cup {CustomName}

\* The file init creates when no config file is named.
InitDefaultName == ".bindown.yaml"

\* The default of the config-file option of the older command line.
configfile_default == "bindown.yml"

\* What the working directory holds under a name: nothing, a directory, or
\* a file.  A file's body tells who wrote it ("old": it was there before the
\* invocation, "empty": os.Create truncated it, "fresh": init's Write,
\* "added": the Write of add-checksums, "formatted": the Write of format);
\* origin is the file's own name, and
\* cache and trust are the cache directory and trust-cache flag it stores.
CfgNone == [kind |-> "none", origin |-> "", body |-> "", cache |-> "", trust |-> FALSE]

CfgDir == [kind |-> "dir", origin |-> "", body |-> "", cache |-> "", trust |-> FALSE]

Stored(name, body, cache, trust) ==
  [kind |-> "file", origin |-> name, body |-> body, cache |-> cache, trust |-> trust]

\* The cache directories a config file stores and the --cache option gives.
FileCaches == {"", "/cfg"}

CliCaches == {"", "/cli"}

\* rootCmd.TrustCache is a *bool: nil when the flag was not supplied.
TrustFlags == {"nil", "true", "false"}

\* The commands modelled: install stands for the commands whose Run begins
\* with loadConfigFile.
Commands == {"install", "format", "init", "add-checksums"}

\* The values of the config-file option: not given, a name of its own, a
\* default name.
ConfigfileArgs == {"", CustomName, ".bindown.yml"}

\* os.Stat(name) succeeded and the entry is no directory.
isConfigFile(fl, name) == name \in DOMAIN fl /\ fl[name].kind = "file"

(***************************************************************************)
(* State                                                                   *)
(***************************************************************************)
VARIABLES
  fs,    \* the file system: the entry at every path
  pc,    \* where each process stands in its Install call
  d,     \* the Downloader each call was made on
  opts,  \* each call's InstallOpts, defaults filled in
  err,   \* the error each call returns ("none": nil)
  hist,  \* what each call has done so far (observations only)
  files, \* the working directory of the command line: the entry under each name
  inv    \* the invocation of the command line: arguments, position, results

vars == <<fs, pc, d, opts, err, hist, files, inv>>

installVars == <<fs, pc, d, opts, err, hist>>

cliVars == <<files, inv>>

NoDescriptor ==
  [URL |-> "", Checksum |-> "", LinkSource |-> "", BinName |-> "", MoveFrom |-> ""]

NoOpts ==
  [TargetDir |-> Unset, DownloadDir |-> Unset, ExtractDir |-> Unset, Force |-> FALSE]

\* The observations of one call: the stages it started and the one that
\* failed, its http.Get calls, what the cache check found, the bytes
\* fileChecksum summed, the bytes that passed verification, the bytes the
\* extract stage read, whether it copied the raw file, how unarchiving
\* went, whether the deletion warning was logged, whether the environment
\* failed a system call, the entries found when the call (dest0), its
\* cache check (cache0) and its extract stage (archive0) began, the install
\* strategies that put something at the destination, and the entry move
\* renamed.
NewHist ==
  [started |-> <<>>, failed |-> "", fetches |-> 0,
   checked |-> FALSE, cacheValid |-> FALSE, cache0 |-> NoFile,
   summed |-> "", verified |-> "", extracted |-> "", copied |-> FALSE,
   unarchive |-> "no", rmArchive |-> FALSE, archive0 |-> NoFile,
   warned |-> FALSE, envFail |-> FALSE, dest0 |-> NoFile,
   placed |-> {}, moved |-> NoFile]

\* No invocation: the arguments are unset and nothing was loaded.  CacheArg
\* is the cache directory the command line gave and CacheDir the field of
\* rootCmd that started with it; loaded is what LoadConfigFile returned, cfg
\* the config after the overrides, files0 the working directory when the
\* command began, added whether AddChecksums returned nil.
NoInvocation ==
  [pc |-> "idle", cmd |-> "", Configfile |-> "", CacheArg |-> "", CacheDir |-> "",
   TrustCache |-> "nil",
   filename |-> "", loaded |-> CfgNone, cfg |-> CfgNone, err |-> "none",
   added |-> FALSE, files0 |-> [n \in ConfigNames |-> CfgNone]]

\* Nothing is cached; the destination is empty or holds a file somebody put
\* there earlier.
InstallInit ==
  /\ \E e \in {NoFile, File(OldBin, ModeNew)} :
       fs = [q \in AllPaths |-> IF q = Join(TargetDir, "foo") THEN e ELSE NoFile]
  /\ pc = [p \in Procs |-> "idle"]
  /\ d = [p \in Procs |-> NoDescriptor]
  /\ opts = [p \in Procs |-> NoOpts]
  /\ err = [p \in Procs |-> "none"]
  /\ hist = [p \in Procs |-> NewHist]

\* The command line is not in use.
Init ==
  /\ InstallInit
  /\ files = [n \in ConfigNames |-> CfgNone]
  /\ inv = NoInvocation

(***************************************************************************)
(* Install                                                                 *)
(***************************************************************************)
\* A faulty Install that places the binary before it downloads and verifies.
OrderPlaceFirst ==
  <<"link", "move", "download", "validateChecksum", "extract", "chmod">>

\* The stages of Install in the order of its body.
Order == <<"download", "validateChecksum", "extract", "link", "move", "chmod">>

IndexOf(stage) == CHOOSE i \in 1..Len(Order) : Order[i] = stage

\* A faulty Install that goes on to the next stage whatever the stage returned.
ContinueDespiteError(stage, e) ==
  IF IndexOf(stage) = Len(Order) THEN "done" ELSE Order[IndexOf(stage) + 1]

\* A faulty Install that starts over with the download stage when the
\* download or the verification failed.
ContinueRetrying(stage, e) ==
  IF e # "none" /\ stage \in {"download", "validateChecksum"} THEN "download"
  ELSE IF e # "none" THEN "done"
  ELSE IF IndexOf(stage) = Len(Order) THEN "done"
  ELSE Order[IndexOf(stage) + 1]

\* Install's `if err != nil { return err }` after every stage: where the call
\* goes when the stage has ended with error e.
Continue(stage, e) ==
  IF e # "none" THEN "done"
  ELSE IF IndexOf(stage) = Len(Order) THEN "done"
  ELSE Order[IndexOf(stage) + 1]

\* A stage of process p ends with error e.
Finish(p, stage, e, h) ==
  /\ pc' = [pc EXCEPT ![p] = Continue(stage, e)]
  /\ err' = [err EXCEPT ![p] = e]
  /\ hist' = [hist EXCEPT ![p] =
                [h EXCEPT !.failed = IF e = "none" THEN "" ELSE stage]]

\* A stage of process p starts.
Started(p, stage) == [hist[p] EXCEPT !.started = Append(@, stage)]

\* Install's defaults for the download and extract directories.
withDefaults(dd, o) ==
  [o EXCEPT
     !.DownloadDir = IF @ = Unset
                     THEN DefaultDownloadDir(o.TargetDir, dd.Checksum) ELSE @,
     !.ExtractDir = IF @ = Unset
                    THEN DefaultExtractDir(o.TargetDir, dd.Checksum) ELSE @]

\* A faulty short-circuit: the negation of Force is lost.
shortCircuitWhenForced(f, dd, o) == fileExists(f, binPath(dd, o.TargetDir)) /\ o.Force

\* Install's short-circuit: the binary is there and the install is not forced.
shortCircuit(f, dd, o) == fileExists(f, binPath(dd, o.TargetDir)) /\ ~o.Force

\* The call of Install on a Descriptor of D, up to its short-circuit.
Call(p, D) ==
  /\ pc[p] = "idle"
  /\ \E dd \in D, force \in BOOLEAN :
       LET o == withDefaults(dd, [TargetDir |-> TargetDir, DownloadDir |-> Unset,
                                  ExtractDir |-> Unset, Force |-> force])
       IN /\ d' = [d EXCEPT ![p] = dd]
          /\ opts' = [opts EXCEPT ![p] = o]
          /\ hist' = [hist EXCEPT ![p] =
                        [NewHist EXCEPT !.dest0 = Lookup(fs, binPath(dd, o.TargetDir))]]
          /\ pc' = [pc EXCEPT ![p] =
                      IF shortCircuit(fs, dd, o) THEN "done" ELSE Order[1]]
          /\ err' = [err EXCEPT ![p] = "none"]
  /\ UNCHANGED fs
  /\ UNCHANGED cliVars

Install(p) == Call(p, Descriptors)

InstallShared(p) == Call(p, SharedDescriptors)

\* Install has returned; the process may call again.
Return(p) ==
  /\ pc[p] = "done"
  /\ pc' = [pc EXCEPT ![p] = "idle"]
  /\ d' = [d EXCEPT ![p] = NoDescriptor]
  /\ opts' = [opts EXCEPT ![p] = NoOpts]
  /\ err' = [err EXCEPT ![p] = "none"]
  /\ hist' = [hist EXCEPT ![p] = NewHist]
  /\ UNCHANGED fs
  /\ UNCHANGED cliVars

(***************************************************************************)
(* download and downloadFile                                               *)
(***************************************************************************)
\* A faulty download that trusts whatever file is there.
needsFetchIfAbsent(f, dlPath, sum) == ~fileExists(f, dlPath)

\* download's choice between the cached file and a fetch.
needsFetch(f, dlPath, sum) == ~fileExistsWithChecksum(f, dlPath, sum)

download(p) ==
  /\ pc[p] = "download"
  /\ \E mkdirOK \in BOOLEAN :
       LET dd == d[p]
           dlPath == downloadablePath(dd, opts[p].DownloadDir)
           e == IF ~urlParseOK(dd.URL) THEN "url"
                ELSE IF ~mkdirOK THEN "mkdir" ELSE "none"
           h == Started(p, "download")
           cur == Stat(fs, dlPath)
       IN IF e # "none"
          THEN Finish(p, "download", e, [h EXCEPT !.envFail = @ \/ e = "mkdir"])
          ELSE IF needsFetch(fs, dlPath, dd.Checksum)
          THEN /\ pc' = [pc EXCEPT ![p] = "downloadFile"]
               /\ hist' = [hist EXCEPT ![p] =
                             [h EXCEPT !.checked = TRUE, !.cache0 = cur,
                                       !.cacheValid = cur.kind = "file"
                                          /\ sha256(cur.content) = dd.Checksum]]
               /\ UNCHANGED err
          ELSE Finish(p, "download", "none",
                      [h EXCEPT !.checked = TRUE, !.cache0 = cur,
                                !.cacheValid = cur.kind = "file"
                                   /\ sha256(cur.content) = dd.Checksum])
  /\ UNCHANGED <<fs, d, opts>>
  /\ UNCHANGED cliVars

\* A faulty downloadFile that takes every answer for a success.
getNeverFails(resp, netOK) == FALSE

\* downloadFile's `if err != nil` after http.Get: the host is not reached.
getFails(resp, netOK) == resp.err \/ ~netOK

\* A faulty downloadFile that does not look at the status code.
statusNeverFails(status) == FALSE

\* downloadFile's status check.
statusFails(status) == status >= StatusLimit

\* downloadFile: http.Get and the status check.
downloadFile(p) ==
  /\ pc[p] = "downloadFile"
  /\ \E netOK \in BOOLEAN :
       LET resp == httpGet(d[p].URL)
           e == IF getFails(resp, netOK) THEN "http"
                ELSE IF statusFails(resp.status) THEN "status" ELSE "none"
           h == [hist[p] EXCEPT !.fetches = @ + 1,
                                !.envFail = @ \/ (~resp.err /\ ~netOK)]
       IN IF e # "none"
          THEN Finish(p, "download", e, h)
          ELSE /\ pc' = [pc EXCEPT ![p] = "osCreate"]
               /\ hist' = [hist EXCEPT ![p] = h]
               /\ UNCHANGED err
  /\ UNCHANGED <<fs, d, opts>>
  /\ UNCHANGED cliVars

\* downloadFile: os.Create truncates the target.
osCreate(p) ==
  /\ pc[p] = "osCreate"
  /\ \E createOK \in BOOLEAN :
       LET dlPath == downloadablePath(d[p], opts[p].DownloadDir)
       IN IF createOK
          THEN /\ fs' = Written(fs, dlPath, File(Partial, ModeNew))
               /\ pc' = [pc EXCEPT ![p] = "ioCopy"]
               /\ UNCHANGED <<err, hist>>
          ELSE /\ Finish(p, "download", "create", [hist[p] EXCEPT !.envFail = TRUE])
               /\ UNCHANGED fs
  /\ UNCHANGED <<d, opts>>
  /\ UNCHANGED cliVars

\* A faulty io.Copy that reports success and has written nothing.
copyWritesNothing(f, path, body) == f

\* The file system after io.Copy has written the body into the open file.  A
\* file that was unlinked since os.Create stays unlinked.
afterCopy(f, path, body) ==
  IF Lookup(f, path).kind = "file" THEN Written(f, path, File(body, ModeNew)) ELSE f

\* A faulty downloadFile that reports a write error whatever io.Copy returned.
copyAlwaysErrors(copyOK) == "copy"

\* downloadFile's last line: the error of io.Copy is the result.
copyError(copyOK) == IF copyOK THEN "none" ELSE "copy"

\* downloadFile: io.Copy and the return of its error.
ioCopy(p) ==
  /\ pc[p] = "ioCopy"
  /\ \E copyOK \in BOOLEAN :
       LET dlPath == downloadablePath(d[p], opts[p].DownloadDir)
           body == httpGet(d[p].URL).body
       IN IF copyOK
          THEN /\ fs' = afterCopy(fs, dlPath, body)
               /\ Finish(p, "download", copyError(copyOK), hist[p])
          ELSE /\ Finish(p, "download", copyError(copyOK),
                         [hist[p] EXCEPT !.envFail = TRUE])
               /\ UNCHANGED fs
  /\ UNCHANGED <<d, opts>>
  /\ UNCHANGED cliVars

(***************************************************************************)
(* validateChecksum                                                        *)
(***************************************************************************)
\* validateChecksum's comparison.
checksumMatches(want, got) == want = got

\* A faulty validateChecksum that leaves the file it rejected.
keepsSuspicious(f, path, rmOK) == f

\* The deferred deletion of a file that failed the comparison.
afterMismatch(f, path, rmOK) == IF rmOK THEN Removed(f, path) ELSE f

validateChecksum(p) ==
  /\ pc[p] = "validateChecksum"
  /\ LET dd == d[p]
         targetFile == downloadablePath(dd, opts[p].DownloadDir)
         cur == Stat(fs, targetFile)
         h == Started(p, "validateChecksum")
     IN IF ~urlParseOK(dd.URL)
        THEN Finish(p, "validateChecksum", "url", h)
        ELSE IF cur.kind = "none"
        THEN Finish(p, "validateChecksum", "fileChecksum", h)
        ELSE IF checksumMatches(dd.Checksum, sha256(cur.content))
        THEN Finish(p, "validateChecksum", "none",
                    [h EXCEPT !.summed = cur.content, !.verified = cur.content])
        ELSE /\ pc' = [pc EXCEPT ![p] = "rmSuspicious"]
             /\ hist' = [hist EXCEPT ![p] = [h EXCEPT !.summed = cur.content]]
             /\ UNCHANGED err
  /\ UNCHANGED <<fs, d, opts>>
  /\ UNCHANGED cliVars

\* A faulty validateChecksum that returns the error of the deletion.
rmErrorMasks(rmOK) == IF rmOK THEN "checksum_mismatch" ELSE "rm"

\* The error validateChecksum returns after a mismatch, whatever the deferred
\* deletion did.
mismatchError(rmOK) == "checksum_mismatch"

\* The deferred function of validateChecksum, then its return.
rmSuspicious(p) ==
  /\ pc[p] = "rmSuspicious"
  /\ \E rmOK \in BOOLEAN :
       LET targetFile == downloadablePath(d[p], opts[p].DownloadDir)
       IN /\ fs' = afterMismatch(fs, targetFile, rmOK)
          /\ Finish(p, "validateChecksum", mismatchError(rmOK),
                    [hist[p] EXCEPT !.warned = ~rmOK, !.envFail = @ \/ ~rmOK])
  /\ UNCHANGED <<d, opts>>
  /\ UNCHANGED cliVars

(***************************************************************************)
(* extract                                                                 *)
(***************************************************************************)
\* A faulty extract that deletes the archive whatever Unarchive returned.
rmArchiveAlways(ok) == "rmArchive"

\* After archiver.Unarchive: on to deleting the archive, or out with the error.
afterUnarchive(ok) == IF ok THEN "rmArchive" ELSE "done"

\* extract up to the copy of a file whose format is not recognized.
extract(p) ==
  /\ pc[p] = "extract"
  /\ \E mkdirOK \in BOOLEAN :
       LET dd == d[p]
           dlName == downloadableName(dd)
           tarPath == Join(opts[p].DownloadDir, dlName)
           src == Stat(fs, tarPath)
           copies == ~ByExtension(dlName)
           e == IF ~urlParseOK(dd.URL) THEN "url"
                ELSE IF ~mkdirOK THEN "mkdir"
                ELSE IF copies /\ src.kind = "none" THEN "copyFile"
                ELSE "none"
           h == [Started(p, "extract") EXCEPT
                   !.archive0 = Lookup(fs, tarPath),
                   !.envFail = @ \/ e = "mkdir"]
       IN IF e # "none"
          THEN /\ Finish(p, "extract", e, h)
               /\ UNCHANGED fs
          ELSE /\ fs' = IF copies
                        THEN Written(fs, Join(opts[p].ExtractDir, dlName),
                                     File(src.content, ModeNew))
                        ELSE fs
               /\ pc' = [pc EXCEPT ![p] = "Unarchive"]
               /\ hist' = [hist EXCEPT ![p] =
                             [h EXCEPT !.copied = copies,
                                       !.extracted = IF copies THEN src.content ELSE @]]
               /\ UNCHANGED err
  /\ UNCHANGED <<d, opts>>
  /\ UNCHANGED cliVars

\* extract's call of archiver.Unarchive, which finds the format from the
\* file name as ByExtension does, then reads the file.
Unarchive(p) ==
  /\ pc[p] = "Unarchive"
  /\ \E libOK \in BOOLEAN :
       LET dlName == downloadableName(d[p])
           tarPath == Join(opts[p].DownloadDir, dlName)
           src == Stat(fs, tarPath)
           reads == ByExtension(dlName) /\ src.kind # "none"
           ok == reads /\ isArchive(src.content) /\ libOK
           h == [hist[p] EXCEPT
                   !.unarchive = IF ok THEN "ok" ELSE "failed",
                   !.extracted = IF reads THEN src.content ELSE @,
                   !.envFail = @ \/ (reads /\ isArchive(src.content) /\ ~libOK)]
       IN /\ fs' = IF ok
                   THEN [q \in DOMAIN fs |->
                           IF \E en \in archiveEntries(src.content) :
                                q = Join(opts[p].ExtractDir, en[1])
                           THEN File((CHOOSE en \in archiveEntries(src.content) :
                                        q = Join(opts[p].ExtractDir, en[1]))[2], ModeNew)
                           ELSE fs[q]]
                   ELSE fs
          /\ IF afterUnarchive(ok) = "rmArchive"
             THEN /\ pc' = [pc EXCEPT ![p] = "rmArchive"]
                  /\ hist' = [hist EXCEPT ![p] = h]
                  /\ UNCHANGED err
             ELSE Finish(p, "extract", "unarchive", h)
  /\ UNCHANGED <<d, opts>>
  /\ UNCHANGED cliVars

\* extract's last line: rm(tarPath).
rmArchive(p) ==
  /\ pc[p] = "rmArchive"
  /\ \E rmOK \in BOOLEAN :
       LET tarPath == Join(opts[p].DownloadDir, downloadableName(d[p]))
           h == [hist[p] EXCEPT !.rmArchive = TRUE, !.envFail = @ \/ ~rmOK]
       IN /\ fs' = IF rmOK THEN Removed(fs, tarPath) ELSE fs
          /\ Finish(p, "extract",
                    IF hist[p].unarchive # "ok" THEN "unarchive"
                    ELSE IF rmOK THEN "none" ELSE "rm", h)
  /\ UNCHANGED <<d, opts>>
  /\ UNCHANGED cliVars

(***************************************************************************)
(* link, move, chmod                                                       *)
(***************************************************************************)
link(p) ==
  /\ pc[p] = "link"
  /\ \E rmOK \in BOOLEAN, symlinkOK \in BOOLEAN :
       LET dd == d[p]
           bp == binPath(dd, opts[p].TargetDir)
           h == Started(p, "link")
           exists == fileExists(fs, bp)
           f1 == IF exists /\ rmOK THEN Removed(fs, bp) ELSE fs
           src == Join(opts[p].ExtractDir, dd.LinkSource)
           free == Lookup(f1, bp).kind = "none"
       IN IF dd.LinkSource = ""
          THEN /\ Finish(p, "link", "none", h)
               /\ UNCHANGED fs
          ELSE IF exists /\ ~rmOK
          THEN /\ Finish(p, "link", "rm", [h EXCEPT !.envFail = TRUE])
               /\ UNCHANGED fs
          ELSE IF ~free \/ ~symlinkOK
          THEN /\ Finish(p, "link", "symlink", [h EXCEPT !.envFail = @ \/ free])
               /\ fs' = f1
          ELSE /\ Finish(p, "link", "none", [h EXCEPT !.placed = @ \cup {"link"}])
               /\ fs' = Written(f1, bp, Symlink(src))
  /\ UNCHANGED <<d, opts>>
  /\ UNCHANGED cliVars

\* A faulty move that copies: the file stays at its source.
renameKeepsSource(f, from, to) == Written(f, to, Lookup(f, from))

\* os.Rename of an existing entry: it is at the new path and gone from the old.
afterRename(f, from, to) == Written(Removed(f, from), to, Lookup(f, from))

move(p) ==
  /\ pc[p] = "move"
  /\ \E rmOK \in BOOLEAN, renameOK \in BOOLEAN :
       LET dd == d[p]
           to == binPath(dd, opts[p].TargetDir)
           h == Started(p, "move")
           f1 == Removed(fs, to)
           from == Join(opts[p].ExtractDir, dd.MoveFrom)
           src == Lookup(f1, from)
       IN IF dd.MoveFrom = ""
          THEN /\ Finish(p, "move", "none", h)
               /\ UNCHANGED fs
          ELSE IF ~rmOK
          THEN /\ Finish(p, "move", "rm", [h EXCEPT !.envFail = TRUE])
               /\ UNCHANGED fs
          ELSE IF src.kind = "none" \/ ~renameOK
          THEN /\ Finish(p, "move", "rename", [h EXCEPT !.envFail = @ \/ src.kind # "none"])
               /\ fs' = f1
          ELSE /\ Finish(p, "move", "none",
                         [h EXCEPT !.placed = @ \cup {"move"}, !.moved = src])
               /\ fs' = afterRename(f1, from, to)
  /\ UNCHANGED <<d, opts>>
  /\ UNCHANGED cliVars

\* A faulty chmod that sets a mode without execute permission.
ChmoddedNoExec(f, path) ==
  Written(f, Resolved(f, path), [Stat(f, path) EXCEPT !.mode = ModeNew])

\* os.Chmod(path, 0755) on an existing entry.
Chmodded(f, path) ==
  Written(f, Resolved(f, path), [Stat(f, path) EXCEPT !.mode = ModeExec])

\* A faulty chmod that succeeds on a path naming no file.
chmodFailsOnlyByEnv(cur, chmodOK) == ~chmodOK

\* os.Chmod fails on a missing file and on a symlink whose target is missing.
chmodFails(cur, chmodOK) == cur.kind = "none" \/ ~chmodOK

\* os.Chmod follows a symlink and changes the mode of the file it names.
chmod(p) ==
  /\ pc[p] = "chmod"
  /\ \E chmodOK \in BOOLEAN :
       LET bp == binPath(d[p], opts[p].TargetDir)
           cur == Stat(fs, bp)
           h == Started(p, "chmod")
       IN IF chmodFails(cur, chmodOK)
          THEN /\ Finish(p, "chmod", "chmod", [h EXCEPT !.envFail = @ \/ cur.kind # "none"])
               /\ UNCHANGED fs
          ELSE /\ Finish(p, "chmod", "none", h)
               /\ fs' = Chmodded(fs, bp)
  /\ UNCHANGED <<d, opts>>
  /\ UNCHANGED cliVars

(***************************************************************************)
(* The command line: loadConfigFile, init, add-checksums                   *)
(***************************************************************************)
RECURSIVE firstConfigFrom(_, _)
\* The loop over defaultConfigFilenames from position i: the first name that
\* os.Stat finds and that is no directory, "" when there is none.
firstConfigFrom(fl, i) ==
  IF i > Len(defaultConfigFilenames) THEN ""
  ELSE IF isConfigFile(fl, defaultConfigFilenames[i]) THEN defaultConfigFilenames[i]
  ELSE firstConfigFrom(fl, i + 1)

\* A faulty loadConfigFile that looks for a default name first.
defaultBeforeExplicit(explicit, fl) ==
  IF firstConfigFrom(fl, 1) # "" THEN firstConfigFrom(fl, 1) ELSE explicit

\* loadConfigFile's choice of the file name.
chosenFilename(explicit, fl) ==
  IF explicit # "" THEN explicit ELSE firstConfigFrom(fl, 1)

\* bindown.LoadConfigFile: the config stored in the file, an error when the
\* name is empty or names no file.
LoadConfigFile(fl, filename) ==
  IF isConfigFile(fl, filename)
  THEN [err |-> FALSE, cfg |-> fl[filename]]
  ELSE [err |-> TRUE, cfg |-> CfgNone]

\* A faulty override that lets the config file's cache directory win.
cacheFromFileFirst(cliCache, loaded) == IF loaded # "" THEN loaded ELSE cliCache

\* The cache directory after `if ctx.rootCmd.CacheDir != ""`.
effectiveCache(cliCache, loaded) == IF cliCache # "" THEN cliCache ELSE loaded

\* The trust-cache flag after `if ctx.rootCmd.TrustCache != nil`.
effectiveTrust(flag, loaded) == IF flag # "nil" THEN flag = "true" ELSE loaded

\* The command line is started with a command and its options.
InvokeCli ==
  /\ inv.pc = "idle"
  /\ \E cmd \in Commands, cf \in ConfigfileArgs, cache \in CliCaches, tc \in TrustFlags :
       /\ cmd = "init" => cache = "" /\ tc = "nil"
       /\ cmd = "add-checksums" => tc = "nil"
       /\ inv' = [NoInvocation EXCEPT !.pc = "parsed", !.cmd = cmd, !.Configfile = cf,
                                      !.CacheArg = cache, !.CacheDir = cache,
                                      !.TrustCache = tc, !.files0 = files]
  /\ UNCHANGED files
  /\ UNCHANGED installVars

\* loadConfigFile on the invocation i (its rootCmd) and the working
\* directory fl: the invocation with the file name chosen and either the
\* load error or the config loaded and the config after the overrides.
afterLoad(i, fl, readOK) ==
  LET filename == chosenFilename(i.Configfile, fl)
      r == LoadConfigFile(fl, filename)
  IN IF r.err \/ ~readOK
     THEN [i EXCEPT !.pc = "exit", !.filename = filename, !.err = "load"]
     ELSE [i EXCEPT
             !.pc = "exit", !.filename = filename, !.loaded = r.cfg,
             !.cfg = [r.cfg EXCEPT
                        !.cache = effectiveCache(i.CacheDir, @),
                        !.trust = effectiveTrust(i.TrustCache, @)]]

\* loadConfigFile, as the first call of the Run of install, download and
\* extract.
loadConfigFile ==
  /\ inv.pc = "parsed"
  /\ inv.cmd = "install"
  /\ \E readOK \in BOOLEAN : inv' = afterLoad(inv, files, readOK)
  /\ UNCHANGED files
  /\ UNCHANGED installVars

\* fmtCmd.Run: the cache directory of the command line is cleared, the
\* config loaded and written back.  A Write that fails leaves the file as it
\* was or truncated.
fmtCmdRun ==
  /\ inv.pc = "parsed"
  /\ inv.cmd = "format"
  /\ \E readOK \in BOOLEAN, writeOK \in BOOLEAN, cut \in BOOLEAN :
       LET i1 == afterLoad([inv EXCEPT !.CacheDir = ""], files, readOK)
           name == i1.filename
       IN IF i1.err # "none"
          THEN /\ inv' = i1
               /\ UNCHANGED files
          ELSE IF ~writeOK
          THEN /\ inv' = [i1 EXCEPT !.err = "write"]
               /\ files' = IF cut
                           THEN [files EXCEPT ![name] = Stored(name, "empty", "", FALSE)]
                           ELSE files
          ELSE /\ inv' = i1
               /\ files' = [files EXCEPT ![name] = [i1.cfg EXCEPT !.body = "formatted"]]
  /\ UNCHANGED installVars

\* init's check before it creates anything: some default name is a file.
initFindsConfig(fl, configfile) == firstConfigFrom(fl, 1) # ""

\* initCmd.Run: os.Create truncates the file, Write stores the empty config.
initCmdRun ==
  /\ inv.pc = "parsed"
  /\ inv.cmd = "init"
  /\ \E createOK \in BOOLEAN, closeOK \in BOOLEAN, writeOK \in BOOLEAN :
       LET configfile == IF inv.Configfile = "" THEN InitDefaultName ELSE inv.Configfile
           created == [files EXCEPT ![configfile] = Stored(configfile, "empty", "", FALSE)]
       IN IF initFindsConfig(files, configfile)
          THEN /\ inv' = [inv EXCEPT !.pc = "exit", !.err = "exists",
                                     !.filename = firstConfigFrom(files, 1)]
               /\ UNCHANGED files
          ELSE IF files[configfile].kind = "dir" \/ ~createOK
          THEN /\ inv' = [inv EXCEPT !.pc = "exit", !.err = "create",
                                     !.filename = configfile]
               /\ UNCHANGED files
          ELSE IF ~closeOK \/ ~writeOK
          THEN /\ inv' = [inv EXCEPT !.pc = "exit", !.filename = configfile,
                                     !.err = IF closeOK THEN "write" ELSE "close"]
               /\ files' = created
          ELSE /\ inv' = [inv EXCEPT !.pc = "exit", !.filename = configfile]
               /\ files' = [files EXCEPT
                              ![configfile] = Stored(configfile, "fresh", "", FALSE)]
  /\ UNCHANGED installVars

\* A faulty add-checksums that writes the config whatever AddChecksums returned.
ignoresAddError(addOK) == FALSE

\* addChecksumsCmd.Run's `if err != nil { return err }` after AddChecksums.
stopsOnAddError(addOK) == ~addOK

\* addChecksumsCmd.Run of the older command line: configFile (fatal when the
\* load fails), AddChecksums on the config in memory, then Write.  A Write
\* that fails leaves the file as it was or truncated.
addChecksumsCmdRun ==
  /\ inv.pc = "parsed"
  /\ inv.cmd = "add-checksums"
  /\ \E readOK \in BOOLEAN, addOK \in BOOLEAN, writeOK \in BOOLEAN, cut \in BOOLEAN :
       LET filename == IF inv.Configfile = "" THEN configfile_default ELSE inv.Configfile
           r == LoadConfigFile(files, filename)
           config == [r.cfg EXCEPT !.cache = effectiveCache(inv.CacheDir, @)]
           i1 == [inv EXCEPT !.pc = "exit", !.filename = filename]
           i2 == [i1 EXCEPT !.loaded = r.cfg, !.cfg = config, !.added = addOK]
       IN IF r.err \/ ~readOK
          THEN /\ inv' = [i1 EXCEPT !.err = "load"]
               /\ UNCHANGED files
          ELSE IF stopsOnAddError(addOK)
          THEN /\ inv' = [i2 EXCEPT !.err = "addChecksums"]
               /\ UNCHANGED files
          ELSE IF ~writeOK
          THEN /\ inv' = [i2 EXCEPT !.err = "write"]
               /\ files' = IF cut
                           THEN [files EXCEPT
                                   ![filename] = Stored(filename, "empty", "", FALSE)]
                           ELSE files
          ELSE /\ inv' = [i2 EXCEPT !.cfg = [config EXCEPT !.body = "added"]]
               /\ files' = [files EXCEPT ![filename] = [config EXCEPT !.body = "added"]]
  /\ UNCHANGED installVars

(***************************************************************************)
(* Specifications                                                          *)
(***************************************************************************)
\* One step of a call in progress.
Step(p) ==
  \/ download(p)
  \/ downloadFile(p)
  \/ osCreate(p)
  \/ ioCopy(p)
  \/ validateChecksum(p)
  \/ rmSuspicious(p)
  \/ extract(p)
  \/ Unarchive(p)
  \/ rmArchive(p)
  \/ link(p)
  \/ move(p)
  \/ chmod(p)

\* The process whose calls are made one after the other.
Caller == CHOOSE p \in Procs : \A q \in Procs : p <= q

\* Install calls made one after the other, each on any Descriptor.
Next == Install(Caller) \/ Step(Caller) \/ Return(Caller)

Spec == Init /\ [][Next]_vars

\* Every process calls Install once on a shared Descriptor, and the calls run
\* at once.
ConcNext == \E p \in Procs : InstallShared(p) \/ Step(p)

ConcSpec == Init /\ [][ConcNext]_vars

\* The working directory before an invocation: under every default name
\* nothing, a directory or a config file, under the other name nothing or a
\* config file; the files store one cache directory and trust-cache flag.
CliInit ==
  /\ InstallInit
  /\ fs[Join(TargetDir, "foo")] = NoFile
  /\ \E kinds \in [ConfigNames -> {"none", "dir", "file"}],
        cache \in FileCaches, trust \in BOOLEAN :
       /\ kinds[CustomName] # "dir"
       /\ files = [n \in ConfigNames |->
                     IF kinds[n] = "none" THEN CfgNone
                     ELSE IF kinds[n] = "dir" THEN CfgDir
                     ELSE Stored(n, "old", cache, trust)]
  /\ inv = NoInvocation

CliNext ==
  InvokeCli \/ loadConfigFile \/ fmtCmdRun \/ initCmdRun \/ addChecksumsCmdRun

\* One invocation of the command line in any working directory.
CliSpec == CliInit /\ [][CliNext]_vars

(***************************************************************************)
(* Properties                                                              *)
(***************************************************************************)
IsPrefix(s, t) == Len(s) <= Len(t) /\ \A i \in 1..Len(s) : s[i] = t[i]

\* The stage the call of p started last ("" before the first).
Stage(p) ==
  IF hist[p].started = <<>> THEN "" ELSE hist[p].started[Len(hist[p].started)]

DestOf(p) == binPath(d[p], opts[p].TargetDir)

ArchiveOf(p) == downloadablePath(d[p], opts[p].DownloadDir)

\* C1: a call of Install with Force = false that finds a file at
\* TargetDir/BinName returns nil at once: it has started no stage and made no
\* http.Get, and the file system is as it was, so that the next such call
\* finds the same state and returns the same.
C1_ShortCircuit ==
  [][\A p \in Procs :
       (/\ pc[p] = "idle"
        /\ pc'[p] # "idle"
        /\ fileExists(fs, binPath(d'[p], opts'[p].TargetDir))
        /\ ~opts'[p].Force)
       => /\ pc'[p] = "done"
          /\ err'[p] = "none"
          /\ hist'[p].started = <<>>
          /\ hist'[p].fetches = 0
          /\ fs' = fs]_vars

C1_Witness ==
  \E p \in Procs :
    /\ pc[p] = "done"
    /\ ~opts[p].Force
    /\ hist[p].started = <<>>
    /\ hist[p].dest0.kind = "file"
    /\ err[p] = "none"

\* C2: the stages a call has started are a prefix of download,
\* validateChecksum, extract, link, move, chmod; a call that holds an error
\* has returned it, the error is that of the stage it started last, and a
\* call that returned nil without the short-circuit has run every stage.
C2_StagesInOrder ==
  \A p \in Procs :
    /\ IsPrefix(hist[p].started, Order)
    /\ err[p] # "none" => pc[p] = "done" /\ hist[p].failed = Stage(p)
    /\ err[p] = "none" => hist[p].failed = ""
    /\ pc[p] = "done" /\ err[p] = "none" /\ hist[p].started # <<>> =>
         hist[p].started = Order

C2_Witness ==
  \E p \in Procs :
    /\ pc[p] = "done"
    /\ err[p] = "unarchive"
    /\ hist[p].started = <<"download", "validateChecksum", "extract">>

\* validateChecksum has returned to Install and summed an existing file.
ValidateReturned(p) ==
  /\ Stage(p) = "validateChecksum"
  /\ pc[p] \in {"extract", "done"}
  /\ hist[p].summed # ""

\* C3 as stated: validateChecksum on an existing file returns nil and leaves
\* the file exactly when its checksum equals Checksum; otherwise it returns
\* the mismatch error and the file no longer exists.
C3_Original ==
  \A p \in Procs :
    ValidateReturned(p) =>
      IF sha256(hist[p].summed) = d[p].Checksum
      THEN /\ err[p] = "none"
           /\ Stat(fs, ArchiveOf(p)).content = hist[p].summed
      ELSE /\ err[p] = "checksum_mismatch"
           /\ Lookup(fs, ArchiveOf(p)).kind = "none"

\* C3, amended: validateChecksum on an existing file returns nil and leaves
\* the file exactly when its checksum equals Checksum; otherwise it returns
\* the mismatch error, and the file no longer exists unless deleting it
\* failed: then the file is still there and the warning has been logged.
C3_MismatchDeletes ==
  \A p \in Procs :
    ValidateReturned(p) =>
      IF sha256(hist[p].summed) = d[p].Checksum
      THEN /\ err[p] = "none"
           /\ Stat(fs, ArchiveOf(p)).content = hist[p].summed
      ELSE /\ err[p] = "checksum_mismatch"
           /\ IF hist[p].warned
              THEN Stat(fs, ArchiveOf(p)).content = hist[p].summed
              ELSE Lookup(fs, ArchiveOf(p)).kind = "none"

C3_Witness ==
  \E p \in Procs :
    /\ ValidateReturned(p)
    /\ d[p].Checksum = "deadbeef"
    /\ err[p] = "checksum_mismatch"
    /\ ~hist[p].warned
    /\ Lookup(fs, ArchiveOf(p)).kind = "none"

\* C4: in calls that run at once on one download directory, the bytes the
\* extract stage of a call reads are bytes with the Descriptor's checksum.
C4_ExtractsVerifiedBytes ==
  \A p \in Procs :
    hist[p].extracted # "" => sha256(hist[p].extracted) = d[p].Checksum

\* C5: when calls for one Descriptor run at once and the environment fails
\* no system call, every call returns nil.
C5_NeitherFails ==
  \A p \in Procs :
    (/\ pc[p] = "done"
     /\ \A q \in Procs : ~hist[q].envFail /\ (pc[q] # "idle" => d[q] = d[p]))
    => err[p] = "none"

\* The call of p is past download's cache check and not past the stage
\* that follows it.
DownloadChecked(p) ==
  hist[p].checked /\ Stage(p) = "download"

\* C6: once download has its directory, it fetches exactly when the file is
\* not there with the Descriptor's checksum: a valid file is kept as it is
\* and no http.Get is made; a missing file and a file with another checksum
\* lead to one http.Get and, when writing succeeds, to the served bytes at
\* that path.
C6_FetchIffNotCached ==
  \A p \in Procs :
    /\ hist[p].checked /\ hist[p].cacheValid => hist[p].fetches = 0
    /\ DownloadChecked(p) /\ hist[p].cacheValid =>
         /\ pc[p] = "validateChecksum"
         /\ err[p] = "none"
         /\ Lookup(fs, ArchiveOf(p)) = hist[p].cache0
    /\ DownloadChecked(p) /\ ~hist[p].cacheValid =>
         /\ pc[p] = "downloadFile" \/ hist[p].fetches = 1
         /\ pc[p] = "validateChecksum" =>
              Lookup(fs, ArchiveOf(p)).content = httpGet(d[p].URL).body

C6_Witness ==
  \E p \in Procs :
    /\ DownloadChecked(p)
    /\ hist[p].cacheValid
    /\ pc[p] = "validateChecksum"
    /\ hist[p].fetches = 0

\* C7: a call on a Descriptor without checksum that comes to verification
\* returns the missing-checksum error (InstallOpts has no way to allow a
\* missing checksum), and extracts nothing.  Stated for the calls in which
\* the environment failed no system call.
C7_MissingChecksum ==
  \A p \in Procs :
    (/\ d[p].Checksum = ""
     /\ pc[p] = "done"
     /\ ~hist[p].envFail
     /\ Len(hist[p].started) >= 2)
    => /\ err[p] = "missing_checksum"
       /\ Len(hist[p].started) = 2

\* extract has returned to Install.
ExtractReturned(p) == Stage(p) = "extract" /\ pc[p] \in {"link", "done"}

\* C8: when the file name has no recognized format, extract copies the file
\* into the extract directory under its name, makes no unarchive attempt and
\* returns nil.  Stated for the calls in which the environment failed no
\* system call.
C8_RawCopyOnly ==
  \A p \in Procs :
    /\ hist[p].copied => hist[p].unarchive = "no"
    /\ ExtractReturned(p) /\ ~ByExtension(downloadableName(d[p]))
         /\ hist[p].archive0.kind = "file" /\ ~hist[p].envFail =>
         /\ err[p] = "none"
         /\ Lookup(fs, Join(opts[p].ExtractDir, downloadableName(d[p]))).content
              = hist[p].archive0.content

\* C9: when the file name has a recognized format, extract unarchives the
\* file into the extract directory and deletes the archive only after
\* Unarchive succeeded; when Unarchive fails extract returns its error and
\* the archive is as extract found it.
C9_ArchiveDeletedAfterUnarchive ==
  \A p \in Procs :
    Stage(p) = "extract" /\ ByExtension(downloadableName(d[p])) =>
      /\ ~hist[p].copied
      /\ hist[p].rmArchive => hist[p].unarchive = "ok"
      /\ hist[p].unarchive = "ok" =>
           \A en \in archiveEntries(hist[p].extracted) :
             Lookup(fs, Join(opts[p].ExtractDir, en[1])).content = en[2]
      /\ hist[p].unarchive = "failed" =>
           /\ pc[p] = "done"
           /\ err[p] = "unarchive"
           /\ Lookup(fs, ArchiveOf(p)) = hist[p].archive0
      /\ pc[p] = "link" =>
           /\ hist[p].unarchive = "ok"
           /\ hist[p].rmArchive
           /\ Lookup(fs, ArchiveOf(p)).kind = "none"

C9_Witness ==
  \E p \in Procs :
    /\ Stage(p) = "extract"
    /\ pc[p] = "link"
    /\ hist[p].archive0.kind = "file"
    /\ hist[p].unarchive = "ok"
    /\ Lookup(fs, ArchiveOf(p)).kind = "none"

\* C10: when Install has returned an error, the destination is empty or
\* holds what it held when the call was made.  Stated for the calls in which
\* the environment failed no system call.
C10_NoPartialPlacement ==
  \A p \in Procs :
    pc[p] = "done" /\ err[p] # "none" /\ ~hist[p].envFail =>
      \/ Lookup(fs, DestOf(p)).kind = "none"
      \/ Lookup(fs, DestOf(p)) = hist[p].dest0

\* The one http.Get of the call of p has failed: the host was not reached or
\* the status code was 300 or greater.
FetchFailed(p) ==
  /\ hist[p].fetches = 1
  /\ pc[p] # "downloadFile"
  /\ \/ d[p].URL \in {NotFoundURL, BadHostURL}
     \/ err[p] \in {"http", "status"}

\* C11 as stated: a call whose fetch fails returns the error of the download
\* stage, and there is no file at TargetDir/BinName.
C11_Original ==
  \A p \in Procs :
    FetchFailed(p) =>
      /\ pc[p] = "done"
      /\ err[p] \in {"http", "status"}
      /\ hist[p].failed = "download"
      /\ Lookup(fs, DestOf(p)).kind = "none"

\* C11, amended: a call whose fetch fails returns the error of the download
\* stage and leaves TargetDir/BinName as it was when the call was made: no
\* file is created there, and the file a forced install found there is
\* still there.
C11_FetchFailureLeavesDestination ==
  \A p \in Procs :
    FetchFailed(p) =>
      /\ pc[p] = "done"
      /\ err[p] \in {"http", "status"}
      /\ hist[p].failed = "download"
      /\ Lookup(fs, DestOf(p)) = hist[p].dest0

C11_Witness ==
  \E p \in Procs :
    /\ FetchFailed(p)
    /\ d[p].URL = BadHostURL
    /\ err[p] = "http"
    /\ hist[p].dest0.kind = "none"
    /\ Lookup(fs, DestOf(p)).kind = "none"

\* C12: a call applies at most one install strategy: link and move never both
\* put something at the destination in one call, and a strategy is applied
\* only when its field is set.  Stated for the calls in which the
\* environment failed no system call.
C12_OneStrategy ==
  \A p \in Procs :
    ~hist[p].envFail =>
      /\ Cardinality(hist[p].placed) <= 1
      /\ "link" \in hist[p].placed => d[p].LinkSource # ""
      /\ "move" \in hist[p].placed => d[p].MoveFrom # ""

\* Install has returned nil to the call of p.
Succeeded(p) == pc[p] = "done" /\ err[p] = "none"

\* The destination of p is a regular file with the bytes the archive packs
\* under MoveFrom, the bytes move found at ExtractDir/MoveFrom, and nothing
\* is left at ExtractDir/MoveFrom.
MovedIntoPlace(p) ==
  LET dest == Lookup(fs, DestOf(p))
  IN /\ dest.kind = "file"
     /\ hist[p].moved.kind = "file"
     /\ dest.content = hist[p].moved.content
     /\ \E en \in archiveEntries(hist[p].extracted) :
          en[1] = d[p].MoveFrom /\ en[2] = dest.content
     /\ Lookup(fs, Join(opts[p].ExtractDir, d[p].MoveFrom)).kind = "none"

\* C13 as stated: after every call with MoveFrom set that returned nil, the
\* destination is a regular file holding the extracted file, and the file is
\* gone from the extract directory.
C13_Original ==
  \A p \in Procs :
    Succeeded(p) /\ d[p].MoveFrom # "" => MovedIntoPlace(p)

\* C13, amended: after a call with MoveFrom set that returned nil without
\* taking the short-circuit, the destination is a regular file (no symlink)
\* holding the extracted file ExtractDir/MoveFrom in place of whatever was
\* there, and the file is gone from the extract directory.
C13_MoveResult ==
  \A p \in Procs :
    Succeeded(p) /\ d[p].MoveFrom # "" /\ hist[p].started = Order =>
      MovedIntoPlace(p)

C13_Witness ==
  \E p \in Procs :
    /\ Succeeded(p)
    /\ d[p].MoveFrom = "bin/foo.txt"
    /\ hist[p].started = Order
    /\ hist[p].dest0 = File(OldBin, ModeNew)
    /\ Lookup(fs, DestOf(p)) = File(FooTxt, ModeExec)
    /\ Lookup(fs, Join(opts[p].ExtractDir, "bin/foo.txt")).kind = "none"

\* The destination of p is a symlink to ExtractDir/LinkSource, and the file
\* it names is in the extract directory.
LinkedIntoPlace(p) ==
  LET dest == Lookup(fs, DestOf(p))
      src == Join(opts[p].ExtractDir, d[p].LinkSource)
  IN /\ dest.kind = "link"
     /\ dest.target = src
     /\ Lookup(fs, src).kind = "file"
     /\ \E en \in archiveEntries(hist[p].extracted) :
          en[1] = d[p].LinkSource /\ en[2] = Lookup(fs, src).content

C15_NeitherStrategy ==
  \A p \in Procs :
    (/\ pc[p] = "done"
     /\ ~hist[p].envFail
     /\ d[p].LinkSource = ""
     /\ d[p].MoveFrom = ""
     /\ hist[p].copied
     /\ downloadableName(d[p]) = d[p].BinName
     /\ Lookup(fs, Join(opts[p].ExtractDir, d[p].BinName)).kind = "file")
    => /\ err[p] = "none"
       /\ hist[p].placed = {}

\* The execute bits of owner, group and other are set in mode m.
GrantsExecute(m) == \A unit \in {1, 8, 64} : (m \div unit) % 2 = 1

\* C16: after a call that returned nil without the short-circuit, the file
\* TargetDir/BinName names has mode 0755, which grants execute permission to
\* owner, group and other, and another chmod leaves the file system as it is.
C16_Executable ==
  \A p \in Procs :
    Succeeded(p) /\ hist[p].started = Order =>
      /\ Stat(fs, DestOf(p)).kind = "file"
      /\ Stat(fs, DestOf(p)).mode = ModeExec
      /\ GrantsExecute(Stat(fs, DestOf(p)).mode)
      /\ Chmodded(fs, DestOf(p)) = fs

C16_Witness ==
  \E p \in Procs :
    /\ Succeeded(p)
    /\ hist[p].started = Order
    /\ hist[p].moved.mode = ModeNew
    /\ ~GrantsExecute(hist[p].moved.mode)
    /\ Lookup(fs, DestOf(p)).mode = ModeExec

\* C17: downloadFile returns an error when http.Get fails (the host is not
\* reached), when the status code is 300 or greater, when os.Create fails
\* and when io.Copy fails; in the first two cases the step leaves the file
\* system, and with it the target path, as it was.
C17_DownloadFileErrors ==
  [][\A p \in Procs :
       LET resp == httpGet(d[p].URL)
       IN /\ pc[p] = "downloadFile" /\ pc'[p] # "downloadFile" /\ resp.err =>
               pc'[p] = "done" /\ err'[p] = "http" /\ fs' = fs
          /\ pc[p] = "downloadFile" /\ pc'[p] # "downloadFile"
               /\ ~resp.err /\ resp.status >= 300 /\ ~hist'[p].envFail =>
               pc'[p] = "done" /\ err'[p] = "status" /\ fs' = fs
          /\ pc[p] = "downloadFile" /\ pc'[p] = "done" =>
               err'[p] \in {"http", "status"} /\ fs' = fs
          /\ pc[p] = "osCreate" /\ hist'[p].envFail =>
               pc'[p] = "done" /\ err'[p] = "create"
          /\ pc[p] = "ioCopy" /\ hist'[p].envFail =>
               pc'[p] = "done" /\ err'[p] = "copy"]_vars

C17_Witness ==
  \E p \in Procs :
    /\ pc[p] = "done"
    /\ d[p].URL = NotFoundURL
    /\ err[p] = "status"
    /\ hist[p].fetches = 1
    /\ Lookup(fs, ArchiveOf(p)).kind = "none"

\* The cache check of p found the truncated file of a fetch that did not
\* finish.
FoundPartial(p) ==
  hist[p].checked /\ hist[p].cache0.kind = "file" /\ hist[p].cache0.content = Partial

\* C18: a truncated download file never passes for the download: no call
\* verifies or extracts its bytes, and a call whose cache check finds it
\* takes it for invalid, makes its one http.Get and, when writing succeeds,
\* hands the served bytes on to verification.
C18_PartialNotTrusted ==
  \A p \in Procs :
    /\ hist[p].verified # Partial
    /\ hist[p].extracted # Partial
    /\ FoundPartial(p) =>
         /\ ~hist[p].cacheValid
         /\ pc[p] = "downloadFile" \/ hist[p].fetches = 1
         /\ Len(hist[p].started) >= 2 =>
              hist[p].summed = httpGet(d[p].URL).body
         /\ pc[p] = "validateChecksum" =>
              Lookup(fs, ArchiveOf(p)).content = httpGet(d[p].URL).body

C18_Witness ==
  \E p \in Procs :
    /\ FoundPartial(p)
    /\ Succeeded(p)
    /\ hist[p].started = Order
    /\ hist[p].fetches = 1
    /\ hist[p].verified = FooTarGz

\* The positions of a call inside downloadFile.
InFetch == {"downloadFile", "osCreate", "ioCopy"}

\* C19: a call makes at most one http.Get, and makes it in its download
\* stage: once the fetch or the verification has failed the call has
\* returned, and it is never in downloadFile again.
C19_AtMostOneFetch ==
  \A p \in Procs :
    /\ hist[p].fetches <= 1
    /\ pc[p] = "downloadFile" => hist[p].fetches = 0
    /\ pc[p] \in InFetch => hist[p].started = <<"download">>
    /\ hist[p].failed \in {"download", "validateChecksum"} => pc[p] = "done"

C19_Witness ==
  \E p \in Procs :
    /\ pc[p] = "done"
    /\ hist[p].fetches = 1
    /\ err[p] = "checksum_mismatch"
    /\ hist[p].started = <<"download", "validateChecksum">>
    /\ Lookup(fs, ArchiveOf(p)).kind = "none"

\* C20: when the checksum did not match and the deletion of the file failed
\* (the warning was logged), validateChecksum has returned the mismatch error
\* all the same and Install has returned it; the file the deletion failed on
\* is still there.
C20_CleanupFailureIsWarning ==
  \A p \in Procs :
    hist[p].warned =>
      /\ pc[p] = "done"
      /\ err[p] = "checksum_mismatch"
      /\ hist[p].failed = "validateChecksum"
      /\ sha256(hist[p].summed) # d[p].Checksum
      /\ Stat(fs, ArchiveOf(p)).content = hist[p].summed

C20_Witness ==
  \E p \in Procs :
    /\ hist[p].warned
    /\ err[p] = "checksum_mismatch"
    /\ d[p].Checksum = "deadbeef"
    /\ Lookup(fs, ArchiveOf(p)) = File(FooTarGz, ModeNew)

\* downloadFile has returned to the call of p after a success answer of the
\* server, and neither os.Create nor io.Copy was failed by the environment.
FetchAnswered(p) ==
  /\ Stage(p) = "download"
  /\ hist[p].fetches = 1
  /\ pc[p] \notin InFetch
  /\ ~hist[p].envFail
  /\ ~httpGet(d[p].URL).err
  /\ httpGet(d[p].URL).status < StatusLimit

\* C21: when the server answers with a success status and the file can be
\* written, downloadFile returns nil and the file at the target path holds
\* exactly the bytes served.
C21_DownloadByteIdentical ==
  \A p \in Procs :
    FetchAnswered(p) =>
      /\ err[p] = "none"
      /\ pc[p] = "validateChecksum"
      /\ Lookup(fs, ArchiveOf(p)) = File(httpGet(d[p].URL).body, ModeNew)

C21_Witness ==
  \E p \in Procs :
    /\ FetchAnswered(p)
    /\ hist[p].cache0.kind = "none"
    /\ Lookup(fs, ArchiveOf(p)).content = FooTarGz
    /\ sha256(Lookup(fs, ArchiveOf(p)).content) = "f7fa712c"

\* The directories Install would use by default, under the target directory
\* of the call of p, for the Descriptor of p with URL u and checksum sum.
DefaultDirs(p, u, sum) ==
  withDefaults([d[p] EXCEPT !.URL = u, !.Checksum = sum],
               [TargetDir |-> opts[p].TargetDir, DownloadDir |-> Unset,
                ExtractDir |-> Unset, Force |-> FALSE])

\* Install has been called by p and has started no stage yet.
JustCalled(p) == pc[p] # "idle" /\ hist[p].started = <<>>

\* C22: the default download and extract directories of a call are
\* downloads/<checksum> and extracts/<checksum> under TargetDir/.bindownloader:
\* a Descriptor with the same checksum gets the same two directories whatever
\* its URL, and a Descriptor with another checksum gets two other directories.
C22_DirsKeyedByChecksum ==
  \A p \in Procs :
    JustCalled(p) =>
      /\ opts[p].DownloadDir # opts[p].ExtractDir
      /\ d[p].Checksum # "" =>
           /\ opts[p].DownloadDir =
                opts[p].TargetDir \o <<".bindownloader", "downloads", d[p].Checksum>>
           /\ opts[p].ExtractDir =
                opts[p].TargetDir \o <<".bindownloader", "extracts", d[p].Checksum>>
      /\ \A u \in URLs, sum \in Checksums :
           LET dirs == DefaultDirs(p, u, sum)
           IN IF sum = d[p].Checksum
              THEN /\ dirs.DownloadDir = opts[p].DownloadDir
                   /\ dirs.ExtractDir = opts[p].ExtractDir
              ELSE /\ dirs.DownloadDir \notin {opts[p].DownloadDir, opts[p].ExtractDir}
                   /\ dirs.ExtractDir \notin {opts[p].DownloadDir, opts[p].ExtractDir}

C22_Witness ==
  \E p \in Procs :
    /\ JustCalled(p)
    /\ pc[p] = "download"
    /\ d[p].URL = NotFoundURL
    /\ d[p].Checksum = "f7fa712c"
    /\ DefaultDirs(p, ArchiveURL, "f7fa712c").DownloadDir = opts[p].DownloadDir
    /\ DefaultDirs(p, ArchiveURL, "deadbeef").DownloadDir # opts[p].DownloadDir

\* The positions of a call inside its download and verify stages.
InDownloadOrVerify == InFetch \cup {"download", "validateChecksum", "rmSuspicious"}

\* C27: every step of the download and verify stages leaves all paths but
\* the download file as they were, and a call that failed in one of these
\* stages has returned without starting the extract stage, with the
\* destination holding exactly what it held when the call was made.
C27_EarlyFailureFrame ==
  [][\A p \in Procs :
       /\ pc[p] \in InDownloadOrVerify =>
            \A path \in AllPaths \ {ArchiveOf(p)} : fs'[path] = fs[path]
       /\ hist'[p].failed \in {"download", "validateChecksum"} =>
            /\ pc'[p] = "done"
            /\ Len(hist'[p].started) <= 2
            /\ Lookup(fs', binPath(d'[p], opts'[p].TargetDir)) = hist'[p].dest0]_vars

C27_Witness ==
  \E p \in Procs :
    /\ pc[p] = "done"
    /\ opts[p].Force
    /\ hist[p].failed = "validateChecksum"
    /\ hist[p].dest0 = File(OldBin, ModeNew)
    /\ Lookup(fs, DestOf(p)) = File(OldBin, ModeNew)
    /\ \A path \in AllPaths \ {DestOf(p), ArchiveOf(p)} : fs[path] = NoFile

\* A command has finished its call of loadConfigFile.
Loaded == inv.pc = "exit" /\ inv.cmd \in {"install", "format"}

\* Name is the first of the default names, in their order, under which the
\* working directory dir holds a file.
FirstDefaultIn(dir, name) ==
  \E i \in DOMAIN defaultConfigFilenames :
    /\ name = defaultConfigFilenames[i]
    /\ dir[name].kind = "file"
    /\ \A j \in 1..(i - 1) : dir[defaultConfigFilenames[j]].kind # "file"

\* C23: with no config file named, loadConfigFile loads the first of
\* bindown.yml, bindown.yaml, bindown.json, .bindown.yml, .bindown.yaml,
\* .bindown.json that exists and is no directory (no file name when there is
\* none); a config file named explicitly is the one it loads whatever
\* default-named files exist; the config it returns is the one stored in
\* that file.
C23_ConfigFileChoice ==
  Loaded =>
    /\ inv.Configfile # "" => inv.filename = inv.Configfile
    /\ inv.Configfile = "" =>
         \/ FirstDefaultIn(inv.files0, inv.filename)
         \/ /\ inv.filename = ""
            /\ \A n \in ConfigNames \ {CustomName} : inv.files0[n].kind # "file"
            /\ inv.err = "load"
    /\ inv.err = "none" => inv.loaded = inv.files0[inv.filename]

C23_Witness ==
  /\ Loaded
  /\ inv.Configfile = ""
  /\ inv.files0["bindown.yml"].kind = "dir"
  /\ inv.files0["bindown.yaml"].kind = "none"
  /\ inv.files0["bindown.json"].kind = "file"
  /\ inv.files0[".bindown.yml"].kind = "file"
  /\ inv.filename = "bindown.json"
  /\ inv.loaded.origin = "bindown.json"

\* C25: the config loadConfigFile returns has the cache directory of
\* rootCmd when that is non-empty and the one the config file stores
\* otherwise, and the trust-cache flag of the command line whenever the flag
\* was supplied, true or false, and the one the config file stores otherwise.
C25_CommandLineOverrides ==
  Loaded /\ inv.err = "none" =>
    LET stored == inv.files0[inv.filename]
    IN /\ inv.CacheDir # "" => inv.cfg.cache = inv.CacheDir
       /\ inv.CacheDir = "" => inv.cfg.cache = stored.cache
       /\ inv.TrustCache = "true" => inv.cfg.trust = TRUE
       /\ inv.TrustCache = "false" => inv.cfg.trust = FALSE
       /\ inv.TrustCache = "nil" => inv.cfg.trust = stored.trust
       /\ inv.cmd = "install" => inv.CacheDir = inv.CacheArg

C25_Witness ==
  /\ Loaded
  /\ inv.cmd = "install"
  /\ inv.err = "none"
  /\ inv.CacheArg = "/cli"
  /\ inv.loaded.cache = "/cfg"
  /\ inv.cfg.cache = "/cli"
  /\ inv.TrustCache = "false"
  /\ inv.loaded.trust = TRUE
  /\ inv.cfg.trust = FALSE

\* C24: add-checksums writes the config file only after AddChecksums
\* returned nil; when AddChecksums fails the command returns that error and
\* every file is as the command found it.
C24_WriteOnlyAfterAddChecksums ==
  inv.cmd = "add-checksums" =>
    /\ files # inv.files0 => inv.added /\ inv.err \in {"none", "write"}
    /\ inv.pc = "exit" /\ inv.err = "none" =>
         inv.added /\ files[inv.filename].body = "added"
    /\ inv.pc = "exit" /\ inv.loaded.kind = "file" /\ ~inv.added =>
         inv.err = "addChecksums" /\ files = inv.files0

C24_Witness ==
  /\ inv.cmd = "add-checksums"
  /\ inv.pc = "exit"
  /\ inv.loaded.kind = "file"
  /\ ~inv.added
  /\ inv.err = "addChecksums"
  /\ files[inv.filename] = Stored(inv.filename, "old", "/cfg", TRUE)

\* The file init creates: the one the config-file option names, .bindown.yaml
\* when the option is not given.
InitTarget == IF inv.Configfile = "" THEN InitDefaultName ELSE inv.Configfile

\* C26: whenever a default-named config file or the file init would create
\* exists already, init returns the 'already exists' error and every file
\* is as the command found it.  Stated for the runs in which the environment
\* failed none of os.Create, Close and Write.
C26_InitNeverOverwrites ==
  (/\ inv.cmd = "init"
   /\ inv.pc = "exit"
   /\ inv.err \notin {"create", "close", "write"}
   /\ \/ inv.files0[InitTarget].kind = "file"
      \/ \E n \in ConfigNames \ {CustomName} : inv.files0[n].kind = "file")
  => /\ inv.err = "exists"
     /\ files = inv.files0

====
